---- MODULE Spec2Model ----
(***************************************************************************)
(* Model of the documentation generator src/mframework/_documentation.py   *)
(* and of the loading of the Sphinx configuration docs/source/conf.py.     *)
(*                                                                         *)
(* A Python string that is a text is modelled by the sequence of its       *)
(* lines: the text is the concatenation of every line followed by "\n".    *)
(* Every piece the generator appends ends with "\n", so appending pieces   *)
(* is concatenation of line sequences.  A line itself is a TLA+ string,    *)
(* with Len, \o and SubSeq standing for len(), + and slicing.              *)
(*                                                                         *)
(* One behaviour is one call of one entry point (the variable call):       *)
(* doc2rst, get_header, schemadict2rst, or the loading of conf.py.         *)
(***************************************************************************)
EXTENDS Integers, Sequences, FiniteSets, TLC

VARIABLES
    call,       \* the entry point this behaviour runs
    pc,         \* position in the entry point's code
    mspec,      \* argument of doc2rst: the ordered mapping behind keys / get_docs()
    dir_path,   \* argument of doc2rst: None or Some(directory)
    rst,        \* local variable rst of doc2rst, as lines
    fi,         \* position of the loop over doc.items()
    pi,         \* position of the loop over f_dict['sub'].items()
    levels,     \* the levels doc2rst has passed to get_header, in call order
    fs,         \* the file system: path -> file
    written,    \* the paths this call has opened for writing with success, in order
    arg,        \* argument(s) of a direct call of get_header / schemadict2rst
    ret,        \* the returned values of the call, as a tuple
    err,        \* the exception the call raised ("" while none)
    defined,    \* conf.py: the module-level names assigned so far
    cmds,       \* conf.py: the os.system calls made so far, with their exit status
    stmt        \* conf.py: the index of the next statement to run

vars == << call, pc, mspec, dir_path, rst, fi, pi, levels, fs, written, arg, ret,
           err, defined, cmds, stmt >>

\* ------------------------------------------------------------------ bounds

\* Most entries of the mapping returned by get_docs().
MaxFeatures == 3
\* Most property entries over all the 'sub' mappings of one specification.
MaxProps == 2
\* Most entries of a schema mapping handed to schemadict2rst directly.
MaxSchemaLen == 2
\* Largest level handed to get_header directly (the smallest is -1).
MaxLevel == 4

\* ------------------------------------------------------- Python primitives

None == [some |-> FALSE, v |-> ""]
Some(x) == [some |-> TRUE, v |-> x]

\* c * n for a one-character string c
RECURSIVE Rep(_, _)
Rep(c, n) ==
    IF n <= 0 THEN ""
    ELSE LET half == Rep(c, n \div 2)
         IN IF n % 2 = 0 THEN half \o half ELSE half \o half \o c

Digit(d) == SubSeq("0123456789", d + 1, d + 1)

\* str(n) for an int n
RECURSIVE NatStr(_)
NatStr(n) == IF n < 10 THEN Digit(n) ELSE NatStr(n \div 10) \o Digit(n % 10)

IntStr(n) == IF n < 0 THEN "-" \o NatStr(-n) ELSE NatStr(n)

\* str(value): a value carries its Python type and, under that type's field, itself
PyStr(value) ==
    CASE value.t = "bool" -> (IF value.b THEN "True" ELSE "False")
      [] value.t = "int" -> IntStr(value.n)
      [] value.t = "str" -> value.s

PyBool(x) == [t |-> "bool", b |-> x, n |-> 0, s |-> ""]
PyInt(x) == [t |-> "int", b |-> FALSE, n |-> x, s |-> ""]
PyText(x) == [t |-> "str", b |-> FALSE, n |-> 0, s |-> x]

\* s.startswith(prefix)
StartsWith(s, prefix) ==
    Len(s) >= Len(prefix) /\ SubSeq(s, 1, Len(prefix)) = prefix

\* s.endswith(suffix)
EndsWith(s, suffix) ==
    Len(s) >= Len(suffix) /\ SubSeq(s, Len(s) - Len(suffix) + 1, Len(s)) = suffix

\* s.center(width, ' ') as CPython pads: the odd space goes left when width is odd
Center(s, width) ==
    IF Len(s) >= width THEN s
    ELSE LET marg == width - Len(s)
             left == (marg \div 2) + (IF marg % 2 = 1 /\ width % 2 = 1 THEN 1 ELSE 0)
         IN Rep(" ", left) \o s \o Rep(" ", marg - left)

\* max(list) of a non-empty list of ints
RECURSIVE SeqMax(_)
SeqMax(s) ==
    IF Len(s) = 1 THEN s[1]
    ELSE LET m == SeqMax(Tail(s)) IN IF s[1] >= m THEN s[1] ELSE m

\* d.get(key, default) for a dict with string keys
DictGet(d, key, default) == IF key \in DOMAIN d THEN d[key] ELSE default

\* the truth value of a string or of an ordered mapping: non-empty
Truthy(x) == Len(x) > 0

\* os.path.join(a, b) for a relative b (posixpath)
PathJoin(a, b) ==
    IF a = "" \/ EndsWith(a, "/") THEN a \o b ELSE a \o "/" \o b

\* the concatenation of a sequence of texts
RECURSIVE Flatten(_)
Flatten(ss) == IF Len(ss) = 0 THEN << >> ELSE Head(ss) \o Flatten(Tail(ss))

\* -------------------------------------------------------- module constants

URL_RESSOURCE ==
    "https://raw.githubusercontent.com/airinnova/model-framework/master/src/mframework/ressources"

URL_ICONS == URL_RESSOURCE \o "/icons"

\* RST_GENERAL_USAGE, the three pieces concatenated.  A TLA+ string cannot hold the
\* backquote character: each backquote of the source is written as an apostrophe.
RST_GENERAL_USAGE ==
    << "",
       "How to use the Model object",
       "===========================",
       "",
       "This page describes the usage of the ''Model'' object. This object provides a",
       "pure Python API, so some basic knowledge about Python is assumed.",
       "",
       "Model paradigm",
       "--------------",
       "",
       "A ''Model'' consists one or more *features*. For instance, an *aircraft* model",
       "might have the feature *propulsion* and the feature *wing*. Such a feature",
       "consists of one or more *properties*. Concrete values can be assigned to these",
       "properties. So, in our example propulsion might have the properties *thrust*",
       "and *type*, and the *wing* feature might have properties *span* and",
       "*mount_point* (e.g. for an engine, landing gear, or some other technical",
       "system). We may assign some values to each of these properties. For instance,",
       "we may set thrust to :math:'50\\,\\textrm{kN}' or the span to",
       ":math:'20\\,\\textrm{m}'. How do we set these values in a Python script?",
       "",
       ".. code:: python",
       "",
       "    # Get an instance of the Model object",
       "    model = Model()",
       "",
       "    # From the model instance, we can create a 'propulsion' instance. We can",
       "    # now set actual value to the properties 'trust' and propulsion 'type'.",
       "    prop = model.set_feature('propulsion')",
       "    prop.set('thrust', 50e3)",
       "    prop.set('type', 'turbofan engine')",
       "",
       "    # Now we create a new 'wing'. We can set the 'span' and add mount points",
       "    wing = model.add_feature('wing')",
       "    wing.set('span', 20)",
       "    wing.add('mount_point', (4, 2, 4))",
       "    wing.add('mount_point', (4, 6, 4))",
       "    wing.add('mount_point', (4, 20, 4))",
       "",
       "",
       ".. figure:: " \o URL_RESSOURCE \o "/aircraft_model.svg",
       "   :width: 500",
       "   :alt: Simple aircraft model",
       "   :align: center",
       "",
       "   Simple aircraft model with a *propulsion* features, and a *wing* feature",
       "",
       "Notice the method ''add_feature()''. When calling this method, we create a",
       "*instance* of the feature we want to add (here '''propulsion''' and",
       "'''wing'''). The feature instance has ''set()'' and ''add()'' methods to assign",
       "a value to some property. The model object will check the value. That means",
       "that you must provide a number for the property *trust*. If you try to assign,",
       "say a string ('''50e3'''), an error will be thrown, and the model will not",
       "continue to be built.",
       "",
       "",
       ".. figure:: " \o URL_RESSOURCE \o "/model_api_hierarchy.svg",
       "   :alt: Model hierarchy",
       "   :align: center",
       "",
       "   A model object can have multiple features, and each feature can have",
       "   multiple properties",
       "",
       "Model and feature methods",
       "-------------------------",
       "",
       "The ''Model'' object and its features provide only few methods. The main thing",
       "to remember is that there are ''set*'' and ''add*'' methods. The ''set*''",
       "method will always apply if there can only be one instance, and the ''add*''",
       "method will apply if there can be multiple instances. For example, an aircraft",
       "can have more than one wing, hence the ''add_feature()'' method applies. To",
       "create another wing, we simply call the method again. However, some feature may",
       "only exists once. In our dummy aircraft model, we impose the restriction of",
       "only adding *one* propulsion feature (arguably, an aircraft model could have",
       "multiple propulsion instances, but here we assume otherwise). To highlight that",
       "propulsion is a *singleton* feature, we use the ''set_feature()'' method.",
       "Trying to use ''add_feature('propulsion')'' will result in an error and the",
       "model will not continue to build. Property values in a feature can be assigned",
       "with the ''add()'' and ''set()'' methods, depending on whether the properties",
       "are singleton or not. In the example above, the wing may have multiple mount",
       "points, but there can only be a single wing span.",
       "",
       "+---------------+----------------------------------+---------------------------------+",
       "|               | **Model**                        | **Feature**                     |",
       "+---------------+----------------------------------+---------------------------------+",
       "| Singleton     | ''set_feature('feature_name')''  | ''set('property_name', value)'' |",
       "+---------------+----------------------------------+---------------------------------+",
       "| Non-singleton | ''add_feature('feature_name')''  | ''add('property_name', value)'' |",
       "+---------------+----------------------------------+---------------------------------+",
       "",
       "You can retrieve feature instances from your model at any time. Note that you",
       "must have created these instances first with the methods discussed above. The",
       "table below shows the available methods you may use.",
       "",
       "..",
       "    TODO",
       "    * More detailed explanation of difference between 'get()' and 'iter()'",
       "",
       "+---------------+--------------------------+---------------------------+",
       "|               | **Model**                | **Feature**               |",
       "+---------------+--------------------------+---------------------------+",
       "| Singleton     | ''get('feature_name')''  | ''get('property_name')''  |",
       "+---------------+--------------------------+---------------------------+",
       "| Non-singleton | ''iter('feature_name')'' | ''iter('property_name')'' |",
       "+---------------+--------------------------+---------------------------+",
       "",
       "Running the model",
       "-----------------",
       "",
       "The last thing you need to know is how to run the model. Once you set up the",
       "entire, you can call the ''run()'' method. This method will start the actual",
       "evaluation of the model.",
       "",
       ".. code:: python",
       "",
       "    model = Model()",
       "    ...  # Add features and assign values here",
       "    results = model.run()",
       "",
       "Results",
       "-------",
       "",
       "TODO",
       "",
       "",
       "" >>

RST_INTRO_MODEL_API ==
    << "Below you will find a comprehensive list of all",
       "available features and properties. The model object has the following features:",
       "",
       "",
       "",
       "" >>

\* ------------------------------------------------------------ get_header

\* header with the character of level 1 repeated at level 2
header_repeated == (0 :> "=") @@ (1 :> "-") @@ (2 :> "-") @@ (3 :> "^")

\* the dict header of get_header
header == (0 :> "=") @@ (1 :> "-") @@ (2 :> "~") @@ (3 :> "^")

\* get_header(string, level) for a level that is a key of header
get_header(string, level) ==
    << string, Rep(header[level], Len(string)), "" >>

\* ------------------------------------------------------------ rst_add_icon

\* the dict icons of rst_add_icon
icons ==
    [ feature |-> "archive.svg", property |-> "parking.svg",
      description |-> "notes.svg", required |-> "lifebuoy.svg",
      singleton |-> "point.svg", schema |-> "clipboard-check.svg" ]

rst_add_icon(icon_type) ==
    << ".. image:: " \o URL_ICONS \o "/" \o icons[icon_type],
       "   :align: left",
       "   :alt: " \o icon_type,
       "" >>

\* ---------------------------------------------------------- the two graphs

\* mspec.keys: the keys of the mapping that get_docs() documents, in its order
mspec_keys(m) == [i \in 1..Len(m) |-> m[i].name]

\* mspec.get_docs(): the ordered mapping name -> record, as a sequence of items
get_docs(m) == m

gen_feature_graph(m) ==
    << ".. mermaid::", "", "    graph TD", "    A[Model]" >>
    \o [i \in 1..Len(mspec_keys(m)) |->
            "    A --> F" \o IntStr(i - 1) \o "[" \o mspec_keys(m)[i] \o "]"]
    \o << "", "" >>

\* gen_graph_property_relation with its two arguments taken in the other order
gen_graph_property_relation_swapped(prop_name, parent_feature) ==
    << ".. mermaid::", "", "    graph LR", "    A[Model]",
       "    A --> F1[" \o prop_name \o "] ",
       "    F1 --> P1[" \o parent_feature \o "] ",
       "", "" >>

gen_graph_property_relation(prop_name, parent_feature) ==
    << ".. mermaid::", "", "    graph LR", "    A[Model]",
       "    A --> F1[" \o parent_feature \o "] ",
       "    F1 --> P1[" \o prop_name \o "] ",
       "", "" >>

\* ---------------------------------------------------------- schemadict2rst

\* max_key_len without the four asterisks of the bold key
max_key_len_bare(sd) == SeqMax([i \in 1..Len(sd) |-> Len(sd[i].key)])

\* max_key_len of schemadict2rst, for a non-empty sd
max_key_len(sd) == SeqMax([i \in 1..Len(sd) |-> Len(sd[i].key)]) + 4

\* max_value_len of schemadict2rst, for a non-empty sd
max_value_len(sd) == SeqMax([i \in 1..Len(sd) |-> Len(PyStr(sd[i].value))])

table_env(sd) == Rep("=", max_key_len(sd)) \o " " \o Rep("=", max_value_len(sd))

\* the row of one item of sd
table_row(sd, i) ==
    Center("**" \o sd[i].key \o "**", max_key_len(sd)) \o " "
        \o Center(PyStr(sd[i].value), max_value_len(sd))

\* schemadict2rst(sd) for a non-empty sd; max() of an empty list raises ValueError
schemadict2rst(sd) ==
    << table_env(sd) >> \o [i \in 1..Len(sd) |-> table_row(sd, i)]
        \o << table_env(sd), "" >>

schemadict2rst_raises(sd) == Len(sd) = 0

\* ------------------------------------------------- the sections of doc2rst

\* if f_name.startswith('$'): continue
is_skipped(f_name) == StartsWith(f_name, "$")

\* the description block of a feature or property: emitted when 'main' is truthy
description_block(d) ==
    IF Truthy(DictGet(d, "main", ""))
    THEN rst_add_icon("description") \o << "*Description*: " \o DictGet(d, "main", ""), "" >>
    ELSE << >>

\* flag_blocks with each flag shown under the other's label
flag_blocks_swapped(d) ==
    rst_add_icon("singleton") \o << "*Singleton*: " \o PyStr(d["required"]), "" >>
    \o rst_add_icon("required") \o << "*Required*: " \o PyStr(d["singleton"]), "" >>

\* the two flag blocks of a feature or property that has both flags
flag_blocks(d) ==
    rst_add_icon("singleton") \o << "*Singleton*: " \o PyStr(d["singleton"]), "" >>
    \o rst_add_icon("required") \o << "*Required*: " \o PyStr(d["required"]), "" >>

\* has_schema testing the presence of the key, not the truth of its value
has_schema_key(p_dict) == "schema" \in DOMAIN p_dict

\* if p_schema_doc: the schema table is generated
has_schema(p_dict) == Truthy(DictGet(p_dict, "schema", << >>))

schema_block(p_dict) ==
    IF has_schema(p_dict)
    THEN rst_add_icon("schema") \o << "*Schema*:", "" >>
            \o schemadict2rst(DictGet(p_dict, "schema", << >>))
    ELSE << >>

\* what one pass of the loop over doc.items() appends before the inner loop
feature_section(f_name, f_dict) ==
    get_header("Feature: " \o f_name, 1) \o description_block(f_dict) \o flag_blocks(f_dict)

\* the pass raises KeyError: f_dict['singleton'], f_dict['required'], f_dict['sub']
feature_raises(f_dict) ==
    ~ ({"singleton", "required", "sub"} \subseteq DOMAIN f_dict)

\* what one pass of the loop over f_dict['sub'].items() appends
property_section(p_name, p_dict, f_name) ==
    get_header("Property: " \o p_name, 2)
    \o gen_graph_property_relation(p_name, f_name)
    \o description_block(p_dict) \o flag_blocks(p_dict) \o schema_block(p_dict)

\* the pass raises: KeyError for a missing flag, ValueError from schemadict2rst
property_error(p_dict) ==
    IF ~ ({"singleton", "required"} \subseteq DOMAIN p_dict) THEN "KeyError"
    ELSE IF has_schema(p_dict) /\ schemadict2rst_raises(DictGet(p_dict, "schema", << >>))
         THEN "ValueError"
         ELSE ""

\* outputs with both files opened under the name of the second
outputs_same_name(text) ==
    << [name |-> "model_api.rst", data |-> RST_GENERAL_USAGE],
       [name |-> "model_api.rst", data |-> text] >>

\* outputs with the generated text written first
outputs_reversed(text) ==
    << [name |-> "model_api.rst", data |-> text],
       [name |-> "model_api_general.rst", data |-> RST_GENERAL_USAGE] >>

\* the files doc2rst writes when dir_path is given, in the order it writes them
outputs(text) ==
    << [name |-> "model_api_general.rst", data |-> RST_GENERAL_USAGE],
       [name |-> "model_api.rst", data |-> text] >>

\* what doc2rst returns
returned(text) == << text >>

\* ------------------------------------------------- the inputs of the calls

\* a dict without one of its keys
Without(d, key) == [k \in DOMAIN d \ {key} |-> d[k]]

SeqsUpTo(S, n) == UNION {[1..k -> S] : k \in 0..n}

DistinctNames(items) ==
    \A i, j \in 1..Len(items) : items[i].name = items[j].name => i = j

FeatureNames == {"wing", "fuel"}
HiddenNames == {"$meta"}
PropNames == {"span", "mass"}

SchemaDoc ==
    << [key |-> "type", value |-> PyText("<class 'float'>")],
       [key |-> ">=", value |-> PyInt(10)] >>

\* property records: 'main' and 'schema' absent, empty or filled; both flags
PropDicts ==
    { [singleton |-> PyBool(TRUE), required |-> PyBool(FALSE)],
      [main |-> "", singleton |-> PyBool(FALSE), required |-> PyBool(TRUE),
       schema |-> SchemaDoc],
      [main |-> "Span in metres", singleton |-> PyBool(TRUE), required |-> PyBool(TRUE),
       schema |-> << >>] }

PropItems == {[name |-> n, rec |-> d] : n \in PropNames, d \in PropDicts}

SubMappings == {s \in SeqsUpTo(PropItems, MaxProps) : DistinctNames(s)}

\* feature records without their 'sub'
FeatureDicts ==
    { [singleton |-> PyBool(TRUE), required |-> PyBool(FALSE)],
      [main |-> "", singleton |-> PyBool(FALSE), required |-> PyBool(TRUE)],
      [main |-> "A lifting surface", singleton |-> PyBool(TRUE), required |-> PyBool(TRUE)] }

\* a property and a feature with every key filled
FullProp ==
    [main |-> "Mass in kg", singleton |-> PyBool(FALSE), required |-> PyBool(FALSE),
     schema |-> SchemaDoc]

FullFeature ==
    [main |-> "A lifting surface", singleton |-> PyBool(TRUE), required |-> PyBool(TRUE),
     sub |-> << [name |-> "mass", rec |-> FullProp] >>]

\* the items of get_docs(): a name with its record; a name that starts with '$'
\* comes with the full record only, which doc2rst never reads
FeatureItems ==
    {[name |-> n, rec |-> d @@ [sub |-> s]] :
        n \in FeatureNames, d \in FeatureDicts, s \in SubMappings}
    \cup {[name |-> n, rec |-> FullFeature] : n \in FeatureNames \cup HiddenNames}

\* the mappings of at most n items, with distinct names, holding at most budget properties
RECURSIVE Mappings(_, _, _)
Mappings(n, budget, used) ==
    {<< >>} \cup
    (IF n = 0 THEN {}
     ELSE UNION { { << f >> \o rest :
                      rest \in Mappings(n - 1, budget - Len(f.rec.sub), used \cup {f.name}) } :
                  f \in {g \in FeatureItems :
                            g.name \notin used /\ Len(g.rec.sub) <= budget} })

\* specifications of features and properties that have every key doc2rst indexes
WellFormedSpecs == Mappings(MaxFeatures, MaxProps, {})

\* records that lack a flag or 'sub', in a feature, a property or a skipped entry
FaultyItems ==
    {[name |-> "wing", rec |-> Without(FullFeature, k)] :
        k \in {"singleton", "required", "sub"}}
    \cup {[name |-> "wing",
           rec |-> [FullFeature EXCEPT !.sub =
                        << [name |-> "mass", rec |-> Without(FullProp, k)] >>]] :
            k \in {"singleton", "required"}}

FaultySpecs ==
    {<< f >> : f \in FaultyItems}
    \cup {<< [name |-> "fuel", rec |-> FullFeature], f >> : f \in FaultyItems}
    \cup {<< [name |-> "$meta", rec |-> Without(FullFeature, k)] >> :
            k \in {"singleton", "sub"}}

WellFormed(m) ==
    \A i \in 1..Len(m) :
        is_skipped(m[i].name)
        \/ ( /\ {"singleton", "required", "sub"} \subseteq DOMAIN m[i].rec
             /\ \A j \in 1..Len(m[i].rec.sub) :
                    {"singleton", "required"} \subseteq DOMAIN m[i].rec.sub[j].rec )

DirPaths == {"docs"}

NoFile == [exists |-> FALSE, data |-> << >>]
File(text) == [exists |-> TRUE, data |-> text]

\* the paths of the model: the two outputs in each directory, and a bystander
Paths ==
    {PathJoin(d, n) : d \in DirPaths, n \in {"model_api_general.rst", "model_api.rst"}}
    \cup {"docs/index.rst"}

\* before the call: an older model_api.rst, an unrelated file, no general guide yet
InitialFs ==
    [p \in Paths |->
        IF p = "docs/model_api_general.rst" THEN NoFile ELSE File(<< "stale", "" >>)]

Titles == {"", "Model", "Feature: wing"}
Levels == (-1)..MaxLevel

SchemaKeys == {"type", ">", "pattern"}
SchemaValues == {PyText(""), PyText("<class 'int'>"), PyInt(0), PyInt(1250), PyBool(TRUE)}

SchemaDicts ==
    {s \in SeqsUpTo({[key |-> k, value |-> v] : k \in SchemaKeys, v \in SchemaValues},
                    MaxSchemaLen) :
        \A i, j \in 1..Len(s) : s[i].key = s[j].key => i = j}

\* ------------------------------------------------------------------ conf.py

\* the module-level statements of conf.py, in file order
ConfStatements ==
    << [kind |-> "import", name |-> "os"],
       [kind |-> "import", name |-> "sys"],
       [kind |-> "call", name |-> "sys.path.insert"],
       [kind |-> "call", name |-> "sys.setrecursionlimit"],
       [kind |-> "import_from", name |-> "__version__"],
       [kind |-> "assign", name |-> "NAME"],
       [kind |-> "assign", name |-> "NAME_LC"],
       [kind |-> "assign", name |-> "COPYRIGHT"],
       [kind |-> "assign", name |-> "AUTHOR"],
       [kind |-> "assign", name |-> "LICENCE_NAME"],
       [kind |-> "assign", name |-> "DESCR_SHORT"],
       [kind |-> "assign", name |-> "AUTHOR_LIST"],
       [kind |-> "assign", name |-> "project"],
       [kind |-> "assign", name |-> "author"],
       [kind |-> "assign", name |-> "copyright"],
       [kind |-> "assign", name |-> "version"],
       [kind |-> "system", name |-> "bash ./dev_doc/gen_auto_doc.sh"],
       [kind |-> "system", name |-> "python ./tutorial/docgen.py"],
       [kind |-> "assign", name |-> "extensions"],
       [kind |-> "assign", name |-> "templates_path"],
       [kind |-> "assign", name |-> "source_suffix"],
       [kind |-> "assign", name |-> "master_doc"],
       [kind |-> "assign", name |-> "language"],
       [kind |-> "assign", name |-> "exclude_patterns"],
       [kind |-> "assign", name |-> "pygments_style"],
       [kind |-> "assign", name |-> "rst_prolog"],
       [kind |-> "assign", name |-> "html_theme"],
       [kind |-> "assign", name |-> "html_theme_options"],
       [kind |-> "assign", name |-> "html_static_path"],
       [kind |-> "assign", name |-> "htmlhelp_basename"],
       [kind |-> "assign", name |-> "latex_elements"],
       [kind |-> "assign", name |-> "latex_documents"],
       [kind |-> "assign", name |-> "man_pages"],
       [kind |-> "assign", name |-> "texinfo_documents"],
       [kind |-> "assign", name |-> "epub_title"],
       [kind |-> "assign", name |-> "epub_exclude_files"] >>

\* the names conf.py assigns under "Project information"
ProjectInformation == {"project", "author", "copyright", "version"}

\* the names conf.py assigns from "General configuration" on: the build options
BuildOptions ==
    { "extensions", "templates_path", "source_suffix", "master_doc", "language",
      "exclude_patterns", "pygments_style", "rst_prolog", "html_theme",
      "html_theme_options", "html_static_path", "htmlhelp_basename", "latex_elements",
      "latex_documents", "man_pages", "texinfo_documents", "epub_title",
      "epub_exclude_files" }

\* wait statuses os.system can return: success, exit code 1, command not found
ExitStatuses == {0, 256, 32512}

\* os.system as subprocess.check_call behaves: a non-zero status raises
os_system_checked(status) == status # 0

\* os.system(command) returns the status and raises nothing, whatever the status
os_system_raises(status) == FALSE

\* ----------------------------------------------------------- initial states

\* the state of everything a call does not use
NoDoc2rst ==
    /\ mspec = << >>
    /\ dir_path = None
    /\ rst = << >>
    /\ fi = 1
    /\ pi = 1
    /\ levels = << >>
    /\ written = << >>

NoConf ==
    /\ defined = {}
    /\ cmds = << >>
    /\ stmt = 1

Init ==
    /\ pc = "start"
    /\ ret = << >>
    /\ err = ""
    /\ fs = InitialFs
    /\ NoConf
    /\ \/ /\ call = "doc2rst"
          /\ mspec \in WellFormedSpecs \cup FaultySpecs
          /\ dir_path \in {None} \cup {Some(p) : p \in DirPaths}
          /\ rst = << >>
          /\ fi = 1
          /\ pi = 1
          /\ levels = << >>
          /\ written = << >>
          /\ arg = << >>
       \/ /\ call = "get_header"
          /\ NoDoc2rst
          /\ arg \in [string : Titles, level : Levels]
       \/ /\ call = "schemadict2rst"
          /\ NoDoc2rst
          /\ arg \in [sd : SchemaDicts]
       \/ /\ call = "conf"
          /\ NoDoc2rst
          /\ arg = << >>

\* ------------------------------------------------------------------ doc2rst

doc == get_docs(mspec)

\* doc = mspec.get_docs(); the header, the intro and the feature graph
Doc2rstBegin ==
    /\ call = "doc2rst" /\ pc = "start"
    /\ rst' = get_header("Model", 0) \o RST_INTRO_MODEL_API \o gen_feature_graph(mspec)
    /\ levels' = Append(levels, 0)
    /\ fi' = 1
    /\ pc' = "features"
    /\ UNCHANGED << call, mspec, dir_path, pi, fs, written, arg, ret, err, defined, cmds, stmt >>

\* for f_name, f_dict in doc.items(): a name that starts with '$' is passed over
FeatureSkip ==
    /\ call = "doc2rst" /\ pc = "features"
    /\ fi <= Len(doc)
    /\ is_skipped(doc[fi].name)
    /\ fi' = fi + 1
    /\ UNCHANGED << call, pc, mspec, dir_path, rst, pi, levels, fs, written, arg, ret, err,
                    defined, cmds, stmt >>

\* the header, description and flags of a feature; then the loop over its 'sub'
FeatureSection ==
    /\ call = "doc2rst" /\ pc = "features"
    /\ fi <= Len(doc)
    /\ ~ is_skipped(doc[fi].name)
    /\ ~ feature_raises(doc[fi].rec)
    /\ rst' = rst \o feature_section(doc[fi].name, doc[fi].rec)
    /\ levels' = Append(levels, 1)
    /\ pi' = 1
    /\ pc' = "properties"
    /\ UNCHANGED << call, mspec, dir_path, fi, fs, written, arg, ret, err, defined, cmds, stmt >>

\* f_dict['singleton'], f_dict['required'] or f_dict['sub'] raises KeyError
FeatureRaise ==
    /\ call = "doc2rst" /\ pc = "features"
    /\ fi <= Len(doc)
    /\ ~ is_skipped(doc[fi].name)
    /\ feature_raises(doc[fi].rec)
    /\ levels' = Append(levels, 1)
    /\ err' = "KeyError"
    /\ pc' = "raised"
    /\ UNCHANGED << call, mspec, dir_path, rst, fi, pi, fs, written, arg, ret, defined, cmds,
                    stmt >>

\* one property of the feature: header, relation graph, description, flags, schema
PropertySection ==
    /\ call = "doc2rst" /\ pc = "properties"
    /\ pi <= Len(doc[fi].rec.sub)
    /\ property_error(doc[fi].rec.sub[pi].rec) = ""
    /\ rst' = rst \o property_section(doc[fi].rec.sub[pi].name, doc[fi].rec.sub[pi].rec,
                                      doc[fi].name)
    /\ levels' = Append(levels, 2)
    /\ pi' = pi + 1
    /\ UNCHANGED << call, pc, mspec, dir_path, fi, fs, written, arg, ret, err, defined, cmds,
                    stmt >>

\* p_dict['singleton'] or p_dict['required'] raises KeyError (or the table ValueError)
PropertyRaise ==
    /\ call = "doc2rst" /\ pc = "properties"
    /\ pi <= Len(doc[fi].rec.sub)
    /\ property_error(doc[fi].rec.sub[pi].rec) # ""
    /\ levels' = Append(levels, 2)
    /\ err' = property_error(doc[fi].rec.sub[pi].rec)
    /\ pc' = "raised"
    /\ UNCHANGED << call, mspec, dir_path, rst, fi, pi, fs, written, arg, ret, defined, cmds,
                    stmt >>

\* the loop over the feature's 'sub' ends: on to the next feature
PropertiesDone ==
    /\ call = "doc2rst" /\ pc = "properties"
    /\ pi > Len(doc[fi].rec.sub)
    /\ fi' = fi + 1
    /\ pc' = "features"
    /\ UNCHANGED << call, mspec, dir_path, rst, pi, levels, fs, written, arg, ret, err, defined,
                    cmds, stmt >>

\* the loop over doc.items() ends: on to "if dir_path is not None"
FeaturesDone ==
    /\ call = "doc2rst" /\ pc = "features"
    /\ fi > Len(doc)
    /\ pc' = "files"
    /\ UNCHANGED << call, mspec, dir_path, rst, fi, pi, levels, fs, written, arg, ret, err,
                    defined, cmds, stmt >>

\* the next file to write, when dir_path is given
next_output == outputs(rst)[Len(written) + 1]
next_path == PathJoin(dir_path.v, next_output.name)

WritePending ==
    /\ call = "doc2rst" /\ pc = "files"
    /\ dir_path.some
    /\ Len(written) < Len(outputs(rst))

\* open(file_path, "w") raises OSError: nothing is created or truncated
OpenFails ==
    /\ WritePending
    /\ err' = "OSError"
    /\ pc' = "raised"
    /\ UNCHANGED << call, mspec, dir_path, rst, fi, pi, levels, fs, written, arg, ret, defined,
                    cmds, stmt >>

\* open() has created or truncated the file; fp.write or the close raises OSError
\* and leaves some prefix of the data in the file
WriteFails ==
    /\ WritePending
    /\ \E k \in 0..1 :
         fs' = [fs EXCEPT ![next_path] = File(SubSeq(next_output.data, 1, k))]
    /\ written' = Append(written, [path |-> next_path, complete |-> FALSE])
    /\ err' = "OSError"
    /\ pc' = "raised"
    /\ UNCHANGED << call, mspec, dir_path, rst, fi, pi, levels, arg, ret, defined, cmds, stmt >>

\* with open(file_path, "w") as fp: fp.write(...) completes
WriteFile ==
    /\ WritePending
    /\ fs' = [fs EXCEPT ![next_path] = File(next_output.data)]
    /\ written' = Append(written, [path |-> next_path, complete |-> TRUE])
    /\ UNCHANGED << call, pc, mspec, dir_path, rst, fi, pi, levels, arg, ret, err, defined,
                    cmds, stmt >>

\* return rst
Doc2rstReturn ==
    /\ call = "doc2rst" /\ pc = "files"
    /\ ~ dir_path.some \/ Len(written) = Len(outputs(rst))
    /\ ret' = returned(rst)
    /\ pc' = "done"
    /\ UNCHANGED << call, mspec, dir_path, rst, fi, pi, levels, fs, written, arg, err, defined,
                    cmds, stmt >>

\* ------------------------------------------- direct calls of the two helpers

CallGetHeader ==
    /\ call = "get_header" /\ pc = "start"
    /\ arg.level \in DOMAIN header
    /\ ret' = << get_header(arg.string, arg.level) >>
    /\ pc' = "done"
    /\ UNCHANGED << call, mspec, dir_path, rst, fi, pi, levels, fs, written, arg, err, defined,
                    cmds, stmt >>

\* header[level] raises KeyError
GetHeaderRaise ==
    /\ call = "get_header" /\ pc = "start"
    /\ arg.level \notin DOMAIN header
    /\ err' = "KeyError"
    /\ pc' = "raised"
    /\ UNCHANGED << call, mspec, dir_path, rst, fi, pi, levels, fs, written, arg, ret, defined,
                    cmds, stmt >>

CallSchemadict2rst ==
    /\ call = "schemadict2rst" /\ pc = "start"
    /\ ~ schemadict2rst_raises(arg.sd)
    /\ ret' = << schemadict2rst(arg.sd) >>
    /\ pc' = "done"
    /\ UNCHANGED << call, mspec, dir_path, rst, fi, pi, levels, fs, written, arg, err, defined,
                    cmds, stmt >>

\* max() of an empty list raises ValueError
Schemadict2rstRaise ==
    /\ call = "schemadict2rst" /\ pc = "start"
    /\ schemadict2rst_raises(arg.sd)
    /\ err' = "ValueError"
    /\ pc' = "raised"
    /\ UNCHANGED << call, mspec, dir_path, rst, fi, pi, levels, fs, written, arg, ret, defined,
                    cmds, stmt >>

\* ------------------------------------------------------- loading conf.py

ConfRunning == call = "conf" /\ pc \in {"start", "loading"} /\ stmt <= Len(ConfStatements)

\* an import, a call of sys, or an assignment: the name is bound, the next statement runs
ConfStatement ==
    /\ ConfRunning
    /\ ConfStatements[stmt].kind \in {"import", "call", "import_from", "assign"}
    /\ defined' = IF ConfStatements[stmt].kind = "call" THEN defined
                  ELSE defined \cup {ConfStatements[stmt].name}
    /\ stmt' = stmt + 1
    /\ pc' = IF stmt = Len(ConfStatements) THEN "done" ELSE "loading"
    /\ UNCHANGED << call, mspec, dir_path, rst, fi, pi, levels, fs, written, arg, ret, err,
                    cmds >>

\* from mframework.__version__ import __version__ finds no such module
ConfImportError ==
    /\ ConfRunning
    /\ ConfStatements[stmt].kind = "import_from"
    /\ err' = "ImportError"
    /\ pc' = "raised"
    /\ UNCHANGED << call, mspec, dir_path, rst, fi, pi, levels, fs, written, arg, ret, defined,
                    cmds, stmt >>

\* os.system(command): the command runs and ends with some status
ConfSystem ==
    /\ ConfRunning
    /\ ConfStatements[stmt].kind = "system"
    /\ \E status \in ExitStatuses :
         /\ cmds' = Append(cmds, [command |-> ConfStatements[stmt].name, status |-> status])
         /\ IF os_system_raises(status)
            THEN err' = "CalledProcessError" /\ pc' = "raised" /\ stmt' = stmt
            ELSE err' = err /\ pc' = "loading" /\ stmt' = stmt + 1
    /\ UNCHANGED << call, mspec, dir_path, rst, fi, pi, levels, fs, written, arg, ret, defined >>

\* -------------------------------------------------------------------- Spec

Next ==
    \/ Doc2rstBegin
    \/ FeatureSkip
    \/ FeatureSection
    \/ FeatureRaise
    \/ PropertySection
    \/ PropertyRaise
    \/ PropertiesDone
    \/ FeaturesDone
    \/ OpenFails
    \/ WriteFails
    \/ WriteFile
    \/ Doc2rstReturn
    \/ CallGetHeader
    \/ GetHeaderRaise
    \/ CallSchemadict2rst
    \/ Schemadict2rstRaise
    \/ ConfStatement
    \/ ConfImportError
    \/ ConfSystem

Spec == Init /\ [][Next]_vars

\* ------------------------------------------------- reading a generated text

Returned == call = "doc2rst" /\ pc = "done"

\* line i of T is a section title: the next line underlines it, character for character
IsHeaderAt(T, i) ==
    /\ i < Len(T)
    /\ Len(T[i]) > 0
    /\ Len(T[i + 1]) = Len(T[i])
    /\ SubSeq(T[i + 1], 1, 1) \in {"=", "-", "~", "^"}
    /\ T[i + 1] = Rep(SubSeq(T[i + 1], 1, 1), Len(T[i]))

\* the indices of the section titles of T, in order
HeaderLines(T) == SelectSeq([i \in 1..Len(T) |-> i], LAMBDA i : IsHeaderAt(T, i))

\* the section titles with their underline characters, for H = HeaderLines(T)
Sections(T, H) ==
    [k \in 1..Len(H) |-> [title |-> T[H[k]], mark |-> SubSeq(T[H[k] + 1], 1, 1)]]

\* the lines of section k of T: from its title up to the next title, or the end
SectionBody(T, H, k) ==
    SubSeq(T, H[k], IF k < Len(H) THEN H[k + 1] - 1 ELSE Len(T))

\* s without its first n characters
Drop(s, n) == SubSeq(s, n + 1, Len(s))

Visible(m) == SelectSeq(m, LAMBDA f : ~ StartsWith(f.name, "$"))

\* the sections a specification is to give: the model, then every entry
\* whose name does not start with '$', each followed by its properties
ExpectedSections(m) ==
    LET V == Visible(m)
    IN << [title |-> "Model", mark |-> "="] >>
       \o Flatten([i \in 1..Len(V) |->
               << [title |-> "Feature: " \o V[i].name, mark |-> "-"] >>
               \o [j \in 1..Len(V[i].rec.sub) |->
                       [title |-> "Property: " \o V[i].rec.sub[j].name, mark |-> "~"]]])

\* the title of the feature section that holds section k, for S = Sections(T, H)
ParentTitle(S, k) ==
    LET before == {q \in 1..(k - 1) : S[q].mark = "-"}
        last == CHOOSE q \in before : \A r \in before : r <= q
    IN S[last].title

\* ---------------------------------------------------------------------- C1

\* C1: the text doc2rst returns is, in order, the 'Model' header, the intro, the
\* feature graph, then for each entry of get_docs() whose name does not start with
\* '$' a 'Feature: <name>' header followed by one 'Property: <name>' section per
\* entry of its 'sub'; every property's relation diagram names its own parent
\* feature and property; entries whose name starts with '$' produce no section.
C1_BlockOrder ==
    Returned =>
        LET T == ret[1]
            H == HeaderLines(T)
            S == Sections(T, H)
            intro_end == 3 + Len(RST_INTRO_MODEL_API)
        IN /\ S = ExpectedSections(mspec)
           /\ H[1] = 1
           /\ SubSeq(T, 4, intro_end) = RST_INTRO_MODEL_API
           /\ T[intro_end + 1] = ".. mermaid::"
           /\ T[intro_end + 3] = "    graph TD"
           /\ \A k \in 2..Len(H) : H[k] > intro_end + 3
           /\ \A k \in 1..Len(H) :
                S[k].mark = "~" =>
                    /\ T[H[k] + 5] = "    graph LR"
                    /\ T[H[k] + 7] =
                         "    A --> F1[" \o Drop(ParentTitle(S, k), Len("Feature: ")) \o "] "
                    /\ T[H[k] + 8] =
                         "    F1 --> P1[" \o Drop(S[k].title, Len("Property: ")) \o "] "

\* a returned text with a feature that has a property, a skipped entry that has one
\* too, and a second documented feature
C1_Witness ==
    /\ Returned
    /\ Len(mspec) = 3
    /\ Len(Visible(mspec)) = 2
    /\ StartsWith(mspec[2].name, "$")
    /\ Len(mspec[1].rec.sub) = 1
    /\ Len(HeaderLines(ret[1])) = 4

\* ---------------------------------------------------------------------- C2

\* C2: doc2rst returns two results, the RST documentation string and the path of
\* the output file, with and without dir_path.
C2_TwoResults ==
    Returned =>
        /\ Len(ret) = 2
        /\ ret[1] = rst
        /\ dir_path.some => ret[2] = PathJoin(dir_path.v, "model_api.rst")

\* ---------------------------------------------------------------------- C3

GeneralPath == PathJoin(dir_path.v, "model_api_general.rst")
ApiPath == PathJoin(dir_path.v, "model_api.rst")

\* C3: with dir_path None doc2rst creates or modifies no file; with dir_path given it
\* touches nothing but the two output files, and when no write fails it has written
\* exactly these two, 'model_api_general.rst' holding RST_GENERAL_USAGE and
\* 'model_api.rst' holding exactly the returned text.
C3_OneWayToFiles ==
    call = "doc2rst" =>
        /\ ~ dir_path.some => fs = InitialFs /\ written = << >>
        /\ dir_path.some =>
            /\ \A p \in Paths \ {GeneralPath, ApiPath} : fs[p] = InitialFs[p]
            /\ \A i \in 1..Len(written) : written[i].path \in {GeneralPath, ApiPath}
        /\ Returned /\ dir_path.some =>
            /\ [i \in 1..Len(written) |-> written[i].path] = << GeneralPath, ApiPath >>
            /\ GeneralPath # ApiPath
            /\ fs[GeneralPath] = File(RST_GENERAL_USAGE)
            /\ fs[ApiPath] = File(ret[1])

\* a call with a directory returned after documenting a feature: the guide was
\* created, the older model_api.rst replaced
C3_Witness ==
    /\ Returned
    /\ dir_path.some
    /\ Len(Visible(mspec)) >= 1
    /\ ~ InitialFs[GeneralPath].exists
    /\ InitialFs[ApiPath].exists
    /\ fs[ApiPath] # InitialFs[ApiPath]

\* ---------------------------------------------------------------------- C4

\* C4: for a specification whose features and properties all carry their flags (and
\* features their 'sub'), with descriptions and schemas present, empty or absent,
\* doc2rst raises nothing but an error of opening or writing a file, and with
\* dir_path None it raises nothing at all: both loops stay inside their mappings and
\* the call is never in the raised state; the table generator never fails on an
\* empty schema, whatever the specification.
C4_NoFailure ==
    call = "doc2rst" =>
        /\ err # "ValueError"
        /\ WellFormed(mspec) => err \in {"", "OSError"}
        /\ WellFormed(mspec) /\ ~ dir_path.some =>
            /\ pc \in {"start", "features", "properties", "files", "done"}
            /\ err = ""
            /\ fi <= Len(doc) + 1
            /\ pc = "properties" => fi <= Len(doc) /\ pi <= Len(doc[fi].rec.sub) + 1
            /\ pc = "done" => ret = << rst >>

\* a call without directory returned for a specification with a feature without
\* properties, a property whose schema is empty and a property without description
C4_Witness ==
    LET V == Visible(mspec)
    IN /\ Returned
       /\ ~ dir_path.some
       /\ \E i \in 1..Len(V) : Len(V[i].rec.sub) = 0
       /\ \E i \in 1..Len(V) : \E j \in 1..Len(V[i].rec.sub) :
               /\ "schema" \in DOMAIN V[i].rec.sub[j].rec
               /\ V[i].rec.sub[j].rec.schema = << >>
       /\ \E i \in 1..Len(V) : \E j \in 1..Len(V[i].rec.sub) :
               "main" \notin DOMAIN V[i].rec.sub[j].rec

\* ---------------------------------------------------------------------- C5

\* the records behind the sections after 'Model', in the order of ExpectedSections
ExpectedEntries(m) ==
    LET V == Visible(m)
    IN Flatten([i \in 1..Len(V) |->
           << [kind |-> "feature", rec |-> V[i].rec] >>
           \o [j \in 1..Len(V[i].rec.sub) |->
                   [kind |-> "property", rec |-> V[i].rec.sub[j].rec]]])

\* the indices of the lines of B that start with prefix
LinesWith(B, prefix) == {i \in 1..Len(B) : StartsWith(B[i], prefix)}

\* C5 for one section body B and the record e behind it
FlagsShown(B, e) ==
    LET sing == LinesWith(B, "*Singleton*:")
        req == LinesWith(B, "*Required*:")
        desc == LinesWith(B, "*Description*:")
        sch == LinesWith(B, "*Schema*:")
    IN /\ Cardinality(sing) = 1
       /\ Cardinality(req) = 1
       /\ \A i \in sing : B[i] = "*Singleton*: " \o PyStr(e.rec.singleton)
       /\ \A j \in req : B[j] = "*Required*: " \o PyStr(e.rec.required)
       /\ \A i \in sing, j \in req : i < j
       /\ desc # {} <=> ("main" \in DOMAIN e.rec /\ e.rec.main # "")
       /\ Cardinality(desc) <= 1
       /\ \A d \in desc, i \in sing : d < i /\ B[d] = "*Description*: " \o e.rec.main
       /\ sch # {} <=>
            (e.kind = "property" /\ "schema" \in DOMAIN e.rec /\ e.rec.schema # << >>)
       /\ Cardinality(sch) <= 1
       /\ \A s \in sch, j \in req : j < s /\ s + 2 <= Len(B) /\ StartsWith(B[s + 2], "=")

\* C5: every feature section and every property section of the returned text has
\* exactly one '*Singleton*:' line and one '*Required*:' line, in that order, showing
\* the flags of its own record; a '*Description*:' line before them exactly when
\* 'main' is present and non-empty; a '*Schema*:' table after them exactly when the
\* section is a property's and its 'schema' is present and non-empty.
C5_SectionContents ==
    Returned =>
        LET T == ret[1]
            H == HeaderLines(T)
            E == ExpectedEntries(mspec)
        IN /\ Len(H) = Len(E) + 1
           /\ \A k \in 2..Len(H) : FlagsShown(SectionBody(T, H, k), E[k - 1])

\* a returned text with a feature without description and singleton only, and a
\* property that has a description, a schema and is required only
C5_Witness ==
    /\ Returned
    /\ \E i \in 1..Len(Visible(mspec)) :
        LET f == Visible(mspec)[i].rec
        IN /\ "main" \notin DOMAIN f
           /\ f.singleton.b /\ ~ f.required.b
           /\ \E j \in 1..Len(f.sub) :
                /\ "main" \in DOMAIN f.sub[j].rec /\ f.sub[j].rec.main = ""
                /\ "schema" \in DOMAIN f.sub[j].rec /\ f.sub[j].rec.schema # << >>
                /\ ~ f.sub[j].rec.singleton.b /\ f.sub[j].rec.required.b

\* ---------------------------------------------------------------------- C6

\* C6: loading conf.py runs 'bash ./dev_doc/gen_auto_doc.sh' and then
\* 'python ./tutorial/docgen.py', both before any build option is defined; once the
\* first has run, whatever its status, the load is at the second and has not been
\* aborted; no exception follows a command, and a completed load has run both and
\* defined every build option.
C6_RegenerationFirst ==
    call = "conf" =>
        /\ defined \cap BuildOptions # {} =>
              [i \in 1..Len(cmds) |-> cmds[i].command]
                  = << "bash ./dev_doc/gen_auto_doc.sh", "python ./tutorial/docgen.py" >>
        /\ Len(cmds) <= 2
        /\ Len(cmds) >= 1 => cmds[1].command = "bash ./dev_doc/gen_auto_doc.sh"
        /\ Len(cmds) = 1 =>
              /\ pc = "loading"
              /\ ConfStatements[stmt] = [kind |-> "system", name |-> "python ./tutorial/docgen.py"]
        /\ Len(cmds) = 2 => cmds[2].command = "python ./tutorial/docgen.py"
        /\ pc = "raised" => cmds = << >>
        /\ pc = "done" => Len(cmds) = 2 /\ BuildOptions \subseteq defined

\* the configuration is loaded although both commands ended with a non-zero status
C6_Witness ==
    /\ call = "conf"
    /\ pc = "done"
    /\ Len(cmds) = 2
    /\ cmds[1].status # 0
    /\ cmds[2].status # 0
    /\ "extensions" \in defined

\* ---------------------------------------------------------------------- C7

\* the underline character of each level, as documented
LevelMark(level) ==
    CASE level = 0 -> "=" [] level = 1 -> "-" [] level = 2 -> "~" [] level = 3 -> "^"

\* the last section before k whose title starts with prefix (0 when there is none)
LastBefore(S, k, prefix) ==
    LET before == {q \in 1..(k - 1) : StartsWith(S[q].title, prefix)}
    IN IF before = {} THEN 0 ELSE CHOOSE q \in before : \A r \in before : r <= q

\* C7: get_header(string, level) returns the title, an underline as long as the title
\* made of the character of the level (0 '=', 1 '-', 2 '~', 3 '^') and a blank line;
\* it raises exactly for a level outside 0..3; doc2rst requests only levels 0, 1 and
\* 2, so that in its text a feature section is underlined differently from the model
\* section and a property section differently from both.
C7_Headers ==
    /\ call = "get_header" /\ pc # "start" =>
        /\ pc = "raised" <=> arg.level \notin 0..3
        /\ pc = "done" =>
            /\ Len(ret[1]) = 3
            /\ ret[1][1] = arg.string
            /\ Len(ret[1][2]) = Len(arg.string)
            /\ ret[1][2] = Rep(LevelMark(arg.level), Len(arg.string))
            /\ ret[1][3] = ""
    /\ call = "doc2rst" =>
        /\ \A i \in 1..Len(levels) : levels[i] \in {0, 1, 2}
        /\ Returned =>
            LET T == ret[1]
                H == HeaderLines(T)
                S == Sections(T, H)
            IN /\ Len(H) = Len(levels)
               /\ \A k \in 1..Len(H) : S[k].mark = LevelMark(levels[k])
               /\ \A k \in 2..Len(H) :
                    /\ S[k].mark # S[1].mark
                    /\ StartsWith(S[k].title, "Property: ") =>
                          /\ LastBefore(S, k, "Feature: ") > 0
                          /\ S[k].mark # S[LastBefore(S, k, "Feature: ")].mark

\* a direct call at the deepest level, with a non-empty title
C7_Witness ==
    /\ call = "get_header"
    /\ pc = "done"
    /\ arg.level = 3
    /\ Len(arg.string) > 5

\* ---------------------------------------------------------------------- C8

\* the edge lines of the feature graph of T, which starts at line g: the lines after
\* "    A[Model]" up to the first blank line
GraphEdges(T, g) ==
    LET first == g + 4
        blank == CHOOSE i \in first..Len(T) :
                    T[i] = "" /\ \A j \in first..(i - 1) : T[j] # ""
    IN SubSeq(T, first, blank - 1)

\* the name between the brackets of an edge line "    A --> F<i>[<name>]"
EdgeName(line, i) ==
    SubSeq(line, Len("    A --> F" \o IntStr(i) \o "[") + 1, Len(line) - 1)

\* C8: the feature graph has exactly one edge 'A --> F<i>[<key>]' per key of
\* mspec.keys, in order, with distinct node ids F0..F(n-1), and the set of feature
\* names in the graph equals the set of names that get a 'Feature:' section.
C8_GraphMatchesSections ==
    Returned =>
        LET T == ret[1]
            H == HeaderLines(T)
            S == Sections(T, H)
            E == GraphEdges(T, 3 + Len(RST_INTRO_MODEL_API) + 1)
        IN /\ Len(E) = Len(mspec_keys(mspec))
           /\ \A i \in 1..Len(E) :
                E[i] = "    A --> F" \o IntStr(i - 1) \o "[" \o mspec_keys(mspec)[i] \o "]"
           /\ {EdgeName(E[i], i - 1) : i \in 1..Len(E)}
                = {Drop(S[k].title, Len("Feature: ")) :
                      k \in {q \in 1..Len(H) : StartsWith(S[q].title, "Feature: ")}}

\* ---------------------------------------------------------------------- C9

\* the largest element of a non-empty set of numbers
SetMax(X) == CHOOSE x \in X : \A y \in X : y <= x

\* s without its leading and trailing spaces
RECURSIVE Strip(_)
Strip(s) ==
    IF Len(s) > 0 /\ SubSeq(s, 1, 1) = " " THEN Strip(SubSeq(s, 2, Len(s)))
    ELSE IF Len(s) > 0 /\ SubSeq(s, Len(s), Len(s)) = " " THEN Strip(SubSeq(s, 1, Len(s) - 1))
    ELSE s

\* C9: for a non-empty schema mapping schemadict2rst returns a table whose first and
\* last lines are the same border of n1 '=', a space and n2 '=' (n1 the longest key
\* length plus 4, n2 the longest length of a value's string form), with one row per
\* key in mapping order, every row as long as the border, the bold key within the
\* first column and the value within the second.
C9_SchemaTable ==
    call = "schemadict2rst" /\ pc = "done" =>
        LET T == ret[1]
            sd == arg.sd
            n1 == SetMax({Len(sd[i].key) : i \in 1..Len(sd)}) + 4
            n2 == SetMax({Len(PyStr(sd[i].value)) : i \in 1..Len(sd)})
            border == Rep("=", n1) \o " " \o Rep("=", n2)
        IN /\ Len(sd) > 0
           /\ Len(T) = Len(sd) + 3
           /\ T[1] = border
           /\ T[Len(sd) + 2] = border
           /\ T[Len(T)] = ""
           /\ \A i \in 1..Len(sd) :
                /\ Len(T[i + 1]) = Len(border)
                /\ Len("**" \o sd[i].key \o "**") <= n1
                /\ Len(PyStr(sd[i].value)) <= n2
                /\ Strip(SubSeq(T[i + 1], 1, n1)) = "**" \o sd[i].key \o "**"
                /\ SubSeq(T[i + 1], n1 + 1, n1 + 1) = " "
                /\ Strip(SubSeq(T[i + 1], n1 + 2, Len(T[i + 1]))) = PyStr(sd[i].value)

\* a table of two rows whose keys and values differ in length
C9_Witness ==
    /\ call = "schemadict2rst"
    /\ pc = "done"
    /\ Len(arg.sd) = 2
    /\ Len(arg.sd[1].key) > Len(arg.sd[2].key)
    /\ Len(PyStr(arg.sd[1].value)) < Len(PyStr(arg.sd[2].value))
    /\ Len(PyStr(arg.sd[1].value)) > 0

\* --------------------------------------------------------------------- C10

\* C10: doc2rst touches no file before the whole text is generated, and none at all
\* when the generation raises KeyError; 'model_api.rst' is opened only as the second
\* file, after 'model_api_general.rst' was written completely, so whenever
\* 'model_api.rst' has changed the general guide holds RST_GENERAL_USAGE.
C10_WriteAfterGeneration ==
    call = "doc2rst" =>
        /\ pc \in {"start", "features", "properties"} => fs = InitialFs /\ written = << >>
        /\ err = "KeyError" => fs = InitialFs /\ written = << >>
        /\ \A i \in 1..Len(written) :
              written[i].path = ApiPath =>
                  /\ i = 2
                  /\ written[1] = [path |-> GeneralPath, complete |-> TRUE]
        /\ dir_path.some /\ fs[ApiPath] # InitialFs[ApiPath] =>
              fs[GeneralPath] = File(RST_GENERAL_USAGE)

\* the generation failed at the second feature of a call that was given a directory
C10_Witness ==
    /\ call = "doc2rst"
    /\ dir_path.some
    /\ pc = "raised"
    /\ err = "KeyError"
    /\ fi = 2
    /\ Len(rst) > 0

====
